---- MODULE Spec2Model ----
(***************************************************************************)
(* A model of qiime/remote.py: loading a QIIME mapping file from a Google  *)
(* Spreadsheet.  Python strings are sequences of one-character strings;    *)
(* the spreadsheet service is the environment, whose answers to each fetch *)
(* are chosen when the fetch is made.                                      *)
(***************************************************************************)
EXTENDS Naturals, Sequences, FiniteSets, TLC

VARIABLES
    \* load_google_spreadsheet_mapping_file and _export_mapping_file
    pc, identifier, spreadsheet_key, worksheet_name, worksheets_feed,
    worksheet, header_pages, headers, mapping_lines, found_data, row_idx,
    list_pages, next_link, result, fetches, feed_rows, compacted,
    \* _get_cleaned_headers, called on its own
    gch_headers, gch_results, gch_done,
    \* _extract_spreadsheet_key_from_url, called on its own
    url, url_result, url_again, url_calls,
    \* the csv writer of load_google_spreadsheet_mapping_file, on its own
    csv_lines, csv_out

loadVars == <<pc, identifier, spreadsheet_key, worksheet_name,
              worksheets_feed, worksheet, header_pages, headers,
              mapping_lines, found_data, row_idx, list_pages, next_link,
              result, fetches, feed_rows, compacted>>
gchVars == <<gch_headers, gch_results, gch_done>>
urlVars == <<url, url_result, url_again, url_calls>>
csvVars == <<csv_lines, csv_out>>
vars == <<loadVars, gchVars, urlVars, csvVars>>

----------------------------------------------------------------------------
(* Bounds of the model.                                                    *)

\* _get_cleaned_headers on its own: how many headers a call is given
MaxHeaders == 3
\* _extract_spreadsheet_key_from_url on its own: how many pieces a URL has
MaxPieces == 4
\* the csv writer on its own: cells of a row, rows of a table
MaxCsvCols == 2
MaxCsvRows == 2
\* the load: worksheets listed, header cells, pages of the cells feed, and
\* the data cells (rows times columns) of one page of the list feed
MaxWorksheets == 2
MaxColumns == 2
MaxHeaderPages == 2
MaxCells == 4

----------------------------------------------------------------------------
(* Python's str and list operations used by remote.py.                     *)

\* every sequence over S of length at most n
SeqsUpTo(S, n) == UNION {[1..k -> S] : k \in 0..n}

RECURSIVE Flatten(_)
\* ''.join(parts): the concatenation of a sequence of strings
Flatten(parts) ==
    IF parts = <<>> THEN <<>> ELSE Head(parts) \o Flatten(Tail(parts))

\* one character of str.lower(): the upper-case letters the headers of the
\* model are written with
LowerChar(c) ==
    CASE c = "F" -> "f"
      [] c = "O" -> "o"
      [] c = "S" -> "s"
      [] OTHER -> c

\* s.lower()
lower(s) == [i \in 1..Len(s) |-> LowerChar(s[i])]

\* s.replace(c, ''): every occurrence of the character c deleted
replace_with_empty(s, c) == SelectSeq(s, LAMBDA x : x # c)

\* s.startswith(prefix)
startswith(s, prefix) ==
    /\ Len(prefix) <= Len(s)
    /\ SubSeq(s, 1, Len(prefix)) = prefix

\* Python's whitespace characters, as far as the model's alphabet has them
Whitespace == {" ", "\t", "\n"}

RECURSIVE lstrip(_)
\* s.lstrip(): leading whitespace removed
lstrip(s) ==
    IF s # <<>> /\ Head(s) \in Whitespace THEN lstrip(Tail(s)) ELSE s

RECURSIVE find(_, _)
\* s.find(sub), 1-based, 0 when sub does not occur in s
find(s, sub) ==
    IF Len(s) < Len(sub) THEN 0
    ELSE IF startswith(s, sub) THEN 1
    ELSE LET r == find(Tail(s), sub) IN IF r = 0 THEN 0 ELSE r + 1

\* sub in s
contains(s, sub) == find(s, sub) # 0

RECURSIVE split(_, _)
\* s.split(sep) for a non-empty sep: left to right, non-overlapping
split(s, sep) ==
    LET at == find(s, sep) IN
    IF at = 0 THEN <<s>>
    ELSE <<SubSeq(s, 1, at - 1)>>
         \o split(SubSeq(s, at + Len(sep), Len(s)), sep)

\* seq[-1]
last(seq) == seq[Len(seq)]

Digits == <<"0", "1", "2", "3", "4", "5", "6", "7", "8", "9">>

RECURSIVE format_d(_)
\* '%d' % n for n >= 0: the decimal digits of n
format_d(n) ==
    IF n < 10 THEN <<Digits[n + 1]>>
    ELSE format_d(n \div 10) \o <<Digits[(n % 10) + 1]>>

----------------------------------------------------------------------------
(* _get_cleaned_headers                                                    *)

\* a variant that forgets to delete '_'
sanitize_keeping_underscore(header) ==
    replace_with_empty(replace_with_empty(replace_with_empty(
        lower(header), ":"), " "), "#")

\* header.lower().replace('_', '').replace(':', '').replace(' ', '')
\*       .replace('#', '')
sanitize(header) ==
    replace_with_empty(replace_with_empty(replace_with_empty(
        replace_with_empty(lower(header), "_"), ":"), " "), "#")

\* header_count[key] of a defaultdict(int), kept as a function on the keys
\* stored so far
dict_get(header_count, key) ==
    IF key \in DOMAIN header_count THEN header_count[key] ELSE 0

dict_set(header_count, key, value) ==
    [k \in DOMAIN header_count \cup {key} |->
        IF k = key THEN value ELSE header_count[k]]

\* a variant that numbers the repeats from 2, as the docstring words it
new_header_from_two(cleaned_header, count) ==
    IF count > 0
    THEN cleaned_header \o <<"_">> \o format_d(count + 1)
    ELSE cleaned_header

\* the body of the second loop: '%s_%d' % (cleaned_header, count) when the
\* sanitized header was seen before
new_header(cleaned_header, count) ==
    IF count > 0
    THEN cleaned_header \o <<"_">> \o format_d(count)
    ELSE cleaned_header

RECURSIVE count_loop(_, _, _)
\* the second loop, from the state (rest of cleaned_headers, header_count,
\* results) to the final results
count_loop(cleaned_headers, header_count, results) ==
    IF cleaned_headers = <<>> THEN results
    ELSE LET cleaned_header == Head(cleaned_headers)
             n == dict_get(header_count, cleaned_header)
         IN count_loop(Tail(cleaned_headers),
                       dict_set(header_count, cleaned_header, n + 1),
                       Append(results, new_header(cleaned_header, n)))

_get_cleaned_headers(hs) ==
    LET cleaned_headers == [i \in 1..Len(hs) |-> sanitize(hs[i])]
    IN count_loop(cleaned_headers, <<>>, <<>>)

----------------------------------------------------------------------------
(* _extract_spreadsheet_key_from_url                                       *)

KeyEq == <<"k", "e", "y", "=">>

\* a variant that takes the text after the first 'key=' instead of the last
extract_after_first_key(u) ==
    IF contains(u, KeyEq)
    THEN Head(split(Head(split(split(u, KeyEq)[2], <<"#">>)), <<"&">>))
    ELSE u

\* url.split('key=')[-1].split('#')[0].split('&')[0] when 'key=' in url
_extract_spreadsheet_key_from_url(u) ==
    IF contains(u, KeyEq)
    THEN Head(split(Head(split(last(split(u, KeyEq)), <<"#">>)), <<"&">>))
    ELSE u

----------------------------------------------------------------------------
(* The csv writer: writer(out_lines, delimiter='\t', lineterminator='\n'), *)
(* with the csv module's defaults quotechar='"', doublequote=True and      *)
(* quoting=QUOTE_MINIMAL.                                                  *)

\* a blank cell: the text of an empty cell is None, which no string equals
None == <<"None">>

delimiter == "\t"
quotechar == "\""
lineterminator == <<"\n">>

\* the characters that make the writer quote a field
NeedsQuote(c) ==
    \/ c = delimiter
    \/ c = quotechar
    \/ \E i \in 1..Len(lineterminator) : lineterminator[i] = c

RECURSIVE join_append_data(_, _)
\* the writer's loop over the characters of a field: the characters to
\* write (a quotechar doubled) and whether the field must be quoted
join_append_data(field, quoted) ==
    IF field = <<>> THEN [text |-> <<>>, quoted |-> quoted]
    ELSE LET c == Head(field)
             rest == join_append_data(Tail(field), quoted \/ NeedsQuote(c))
         IN [text |-> (IF c = quotechar THEN <<c, c>> ELSE <<c>>)
                          \o rest.text,
             quoted |-> rest.quoted]

\* a variant that writes every field as it is
join_append_verbatim(field, quote_empty) ==
    IF field = None THEN <<>> ELSE field

\* one field as the writer emits it: None is written as the empty string,
\* and an empty field is quoted when it is the only field of its row
join_append(field, quote_empty) ==
    LET str == IF field = None THEN <<>> ELSE field
        r == join_append_data(str, str = <<>> /\ quote_empty)
    IN IF r.quoted THEN <<quotechar>> \o r.text \o <<quotechar>>
       ELSE r.text

RECURSIVE join_fields(_, _, _)
\* the fields of a row from position i on, each after the first preceded
\* by the delimiter
join_fields(row, i, quote_empty) ==
    IF i > Len(row) THEN <<>>
    ELSE (IF i > 1 THEN <<delimiter>> ELSE <<>>)
         \o join_append(row[i], quote_empty)
         \o join_fields(row, i + 1, quote_empty)

\* tsv_writer.writerow(row)
writerow(row) == join_fields(row, 1, Len(row) = 1) \o lineterminator

RECURSIVE writerows(_)
\* tsv_writer.writerows(rows); out_lines.getvalue()
writerows(rows) ==
    IF rows = <<>> THEN <<>> ELSE writerow(Head(rows)) \o writerows(Tail(rows))

----------------------------------------------------------------------------
(* _export_mapping_file: the body of `for row in rows_feed.entry`.         *)

\* a variant that takes a row for a comment whatever came before it
comment_check_every_row(found, header_idx) == header_idx = 0

\* `not found_data and header_idx == 0`: when the comment test is made
comment_check(found, header_idx) == ~found /\ header_idx = 0

\* a variant that does not strip the leading whitespace
is_comment_unstripped(cell_data) == startswith(cell_data, <<"#">>)

\* cell_data.lstrip().startswith('#')
is_comment(cell_data) == startswith(lstrip(cell_data), <<"#">>)

RECURSIVE header_loop(_, _, _, _, _, _)
\* the loop over enumerate(zip(headers, cleaned_headers)) from header_idx
\* (0-based, as in the source) on, for one row: row is row.custom as a
\* function from keys to cell texts.  The outcome is the line to append,
\* or the exception the loop raises.
header_loop(hs, cleaned_headers, row, header_idx, line, found) ==
    IF header_idx >= Len(hs)
    THEN [raised |-> "", header |-> <<>>, line |-> line,
          found_data |-> found, comment |-> FALSE]
    ELSE IF cleaned_headers[header_idx + 1] \notin DOMAIN row
    THEN [raised |-> "RemoteMappingFileError", header |-> hs[header_idx + 1],
          line |-> line, found_data |-> found, comment |-> FALSE]
    ELSE LET cell_data == row[cleaned_headers[header_idx + 1]] IN
         IF comment_check(found, header_idx)
         THEN IF cell_data = None
              THEN \* None has no attribute lstrip
                   [raised |-> "AttributeError", header |-> <<>>,
                    line |-> line, found_data |-> found, comment |-> FALSE]
              ELSE IF is_comment(cell_data)
              THEN [raised |-> "", header |-> <<>>,
                    line |-> Append(line, cell_data), found_data |-> found,
                    comment |-> TRUE]
              ELSE header_loop(hs, cleaned_headers, row, header_idx + 1,
                               Append(line, cell_data), TRUE)
         ELSE header_loop(hs, cleaned_headers, row, header_idx + 1,
                          Append(line, cell_data), TRUE)

----------------------------------------------------------------------------
(* The spreadsheet service, and what a call is given.                      *)

\* worksheet_name=None
NotGiven == "<not given>"
WorksheetTitles == {"Fasting_Map", "Sheet1"}
WorksheetNames == {NotGiven, "Fasting_Map"}

\* a bare key, and a URL that holds a key
Identifiers ==
    { <<"K">>, <<"?", "k", "e", "y", "=", "K", "&", "o", "#", "g">> }

\* what a cell of row 1 can hold
HeaderTexts == { <<"#", "S">>, <<"b">> }

\* what a data cell can hold: nothing, a comment, data
CellTexts == { None, <<" ", "#">>, <<"x", "#">> }

\* the rows the list feed can yield for columns with these keys: a row has
\* a cell under some of the keys
RowsOver(keys) == UNION {[present -> CellTexts] : present \in SUBSET keys}

Range(seq) == {seq[i] : i \in 1..Len(seq)}

NoResult ==
    [kind |-> "", text |-> "", key |-> <<>>, name |-> NotGiven,
     header |-> <<>>, value |-> <<>>]

\* raise kind(text % ...): the call ends with an exception
Raise(kind, text, key, name, header) ==
    [kind |-> kind, text |-> text, key |-> key, name |-> name,
     header |-> header, value |-> <<>>]

\* return value
Return(value) == [NoResult EXCEPT !.kind = "returned", !.value = value]

\* one remote fetch, as the service sees it
Fetch(op, ok, next) == [op |-> op, ok |-> ok, next |-> next]

----------------------------------------------------------------------------
(* load_google_spreadsheet_mapping_file                                    *)

\* a variant that raises the plain error for a name-resolution failure
on_gaierror_plain ==
    Raise("RemoteMappingFileError",
          "Could not establish connection with server", <<>>, NotGiven, <<>>)

\* except gaierror: raise RemoteMappingFileConnectionError(...)
on_gaierror ==
    Raise("RemoteMappingFileConnectionError",
          "Could not establish connection with server", <<>>, NotGiven, <<>>)

\* the loop over worksheets_feed.entry: the position of the last sheet
\* whose title is the name, 0 for None; the first sheet when no name is
\* given
find_worksheet(feed, name) ==
    IF name # NotGiven
    THEN LET matches == {i \in 1..Len(feed) : feed[i] = name} IN
         IF matches = {} THEN 0
         ELSE CHOOSE i \in matches : \A j \in matches : j <= i
    ELSE 1

\* a variant that looks the name up before it tests for an empty listing
check_worksheets_name_first(feed, name, key) ==
    IF name # NotGiven /\ find_worksheet(feed, name) = 0
    THEN Raise("RemoteMappingFileError",
               "The worksheet name could not be found", key, name, <<>>)
    ELSE IF Len(feed) < 1
    THEN Raise("RemoteMappingFileError",
               "does not have any worksheets", key, NotGiven, <<>>)
    ELSE NoResult

\* the two tests on the worksheet listing: the exception raised, or
\* NoResult when the load goes on
check_worksheets(feed, name, key) ==
    IF Len(feed) < 1
    THEN Raise("RemoteMappingFileError",
               "does not have any worksheets", key, NotGiven, <<>>)
    ELSE IF name # NotGiven /\ find_worksheet(feed, name) = 0
    THEN Raise("RemoteMappingFileError",
               "The worksheet name could not be found", key, name, <<>>)
    ELSE NoResult

\* if len(headers) < 1: raise
check_headers(hs, key) ==
    IF Len(hs) < 1
    THEN Raise("RemoteMappingFileError",
               "Could not load mapping file header", key, NotGiven, <<>>)
    ELSE NoResult

\* the key is extracted, the worksheets are listed and one is chosen
GetWorksheetsFeed ==
    /\ pc = "start"
    /\ spreadsheet_key' = _extract_spreadsheet_key_from_url(identifier)
    /\ \/ /\ fetches' = Append(fetches,
                               Fetch("GetWorksheetsFeed", FALSE, FALSE))
          /\ result' = on_gaierror
          /\ pc' = "done"
          /\ UNCHANGED <<worksheets_feed, worksheet>>
       \/ \E feed \in SeqsUpTo(WorksheetTitles, MaxWorksheets) :
            LET r == check_worksheets(feed, worksheet_name,
                                      spreadsheet_key') IN
            /\ fetches' = Append(fetches,
                                 Fetch("GetWorksheetsFeed", TRUE, FALSE))
            /\ worksheets_feed' = feed
            /\ result' = r
            /\ pc' = IF r = NoResult THEN "headers" ELSE "done"
            /\ worksheet' = IF r = NoResult
                            THEN find_worksheet(feed, worksheet_name)
                            ELSE 0
    /\ UNCHANGED <<identifier, worksheet_name, header_pages, headers,
                   mapping_lines, found_data, row_idx, list_pages,
                   next_link, feed_rows, compacted,
                   gchVars, urlVars, csvVars>>

\* _get_spreadsheet_headers: one page of the cells feed of row 1 is fetched
\* and its cells appended; after the last page the header is tested
GetCellsFeedPage ==
    /\ pc = "headers"
    /\ LET op == IF header_pages = 0 THEN "GetCellsFeed" ELSE "GetNextCells"
       IN
       \/ /\ fetches' = Append(fetches, Fetch(op, FALSE, FALSE))
          /\ result' = Raise("gaierror", "", <<>>, NotGiven, <<>>)
          /\ pc' = "done"
          /\ UNCHANGED <<headers, header_pages>>
       \/ \E cells \in SeqsUpTo(HeaderTexts, MaxColumns - Len(headers)),
             next \in BOOLEAN :
            /\ next => header_pages + 1 < MaxHeaderPages
            /\ fetches' = Append(fetches, Fetch(op, TRUE, next))
            /\ headers' = headers \o cells
            /\ header_pages' = header_pages + 1
            /\ IF next
               THEN /\ pc' = "headers"
                    /\ result' = result
               ELSE LET r == check_headers(headers', spreadsheet_key) IN
                    /\ result' = r
                    /\ pc' = IF r = NoResult THEN "export" ELSE "done"
    /\ UNCHANGED <<identifier, spreadsheet_key, worksheet_name,
                   worksheets_feed, worksheet, mapping_lines, found_data,
                   row_idx, list_pages, next_link, feed_rows, compacted,
                   gchVars, urlVars, csvVars>>

\* _export_mapping_file up to the first pass of `while True`: the table
\* starts with the header and the first page of the list feed is fetched
GetListFeed ==
    /\ pc = "export"
    /\ mapping_lines' = <<headers>>
    /\ \/ /\ fetches' = Append(fetches, Fetch("GetListFeed", FALSE, FALSE))
          /\ result' = Raise("gaierror", "", <<>>, NotGiven, <<>>)
          /\ pc' = "done"
          /\ UNCHANGED <<found_data, row_idx, list_pages>>
       \/ /\ fetches' = Append(fetches, Fetch("GetListFeed", TRUE, FALSE))
          /\ found_data' = FALSE
          /\ row_idx' = 0
          /\ list_pages' = list_pages + 1
          /\ pc' = "rows"
          /\ result' = result
    /\ UNCHANGED <<identifier, spreadsheet_key, worksheet_name,
                   worksheets_feed, worksheet, header_pages, headers,
                   next_link, feed_rows, compacted,
                   gchVars, urlVars, csvVars>>

\* one pass of `for row in rows_feed.entry`: the page yields one more row
ExportRow ==
    /\ pc = "rows"
    /\ (row_idx + 1) * Len(headers) <= MaxCells
    /\ LET cleaned_headers == _get_cleaned_headers(headers) IN
       \E row \in RowsOver(Range(cleaned_headers)) :
         LET r == header_loop(headers, cleaned_headers, row, 0, <<>>,
                              found_data) IN
         /\ feed_rows' = Append(feed_rows, row)
         /\ row_idx' = row_idx + 1
         /\ IF r.raised = ""
            THEN /\ mapping_lines' = Append(mapping_lines, r.line)
                 /\ found_data' = r.found_data
                 /\ compacted' = Append(compacted, r.comment)
                 /\ UNCHANGED <<pc, result>>
            ELSE /\ result' = Raise(r.raised,
                        IF r.raised = "RemoteMappingFileError"
                        THEN "Could not map header" ELSE "",
                        <<>>, NotGiven, r.header)
                 /\ pc' = "done"
                 /\ UNCHANGED <<mapping_lines, found_data, compacted>>
    /\ UNCHANGED <<identifier, spreadsheet_key, worksheet_name,
                   worksheets_feed, worksheet, header_pages, headers,
                   list_pages, next_link, fetches,
                   gchVars, urlVars, csvVars>>

\* the page has no more rows: rows_feed.GetNextLink().  With a next link
\* the name SpreadsheetsListFeedFromString, which the module never
\* imports, is evaluated before client.Get is called; without one the
\* table is returned and written out as tab-separated text.
ExportEndOfPage ==
    /\ pc = "rows"
    /\ \E next \in BOOLEAN :
         /\ next_link' = next
         /\ result' = IF next
                      THEN Raise("NameError",
                                 "SpreadsheetsListFeedFromString",
                                 <<>>, NotGiven, <<>>)
                      ELSE Return(writerows(mapping_lines))
    /\ pc' = "done"
    /\ UNCHANGED <<identifier, spreadsheet_key, worksheet_name,
                   worksheets_feed, worksheet, header_pages, headers,
                   mapping_lines, found_data, row_idx, list_pages,
                   fetches, feed_rows, compacted,
                   gchVars, urlVars, csvVars>>

\* a call of load_google_spreadsheet_mapping_file
LoadInit ==
    /\ pc = "start"
    /\ identifier \in Identifiers
    /\ worksheet_name \in WorksheetNames
    /\ spreadsheet_key = <<>>
    /\ worksheets_feed = <<>>
    /\ worksheet = 0
    /\ header_pages = 0
    /\ headers = <<>>
    /\ mapping_lines = <<>>
    /\ found_data = FALSE
    /\ row_idx = 0
    /\ list_pages = 0
    /\ next_link = FALSE
    /\ result = NoResult
    /\ fetches = <<>>
    /\ feed_rows = <<>>
    /\ compacted = <<>>

\* no call of load_google_spreadsheet_mapping_file is made
LoadIdle ==
    /\ pc = "off"
    /\ identifier = <<>>
    /\ worksheet_name = NotGiven
    /\ spreadsheet_key = <<>>
    /\ worksheets_feed = <<>>
    /\ worksheet = 0
    /\ header_pages = 0
    /\ headers = <<>>
    /\ mapping_lines = <<>>
    /\ found_data = FALSE
    /\ row_idx = 0
    /\ list_pages = 0
    /\ next_link = FALSE
    /\ result = NoResult
    /\ fetches = <<>>
    /\ feed_rows = <<>>
    /\ compacted = <<>>

----------------------------------------------------------------------------
(* The functions called on their own.                                      *)

\* the headers of test_get_cleaned_headers
TestHeaders ==
    << <<"f", "o", "o">>, <<"F", "o", "o">>, <<"F", "O", "O">>,
       <<"F", "_", "o", "O">>, <<"F", ":", "O", "o", "_", "o">>,
       <<"#", "F", "o", "o">>, <<"f", " ", "O", " ", "O", "#">> >>

\* the headers a call of _get_cleaned_headers is given
HeaderPool ==
    { <<>>, <<"f">>, <<"F">>, <<"F", "_">>, <<"#", "f", ":">>,
      <<"f", "_", "1">>, <<"_", "1">>, <<"f", "1">>, <<"o", " ">> }

GchInit ==
    /\ gch_headers \in SeqsUpTo(HeaderPool, MaxHeaders) \cup {TestHeaders}
    /\ gch_results = <<>>
    /\ gch_done = FALSE

GchIdle ==
    /\ gch_headers = <<>>
    /\ gch_results = <<>>
    /\ gch_done = TRUE

\* results = _get_cleaned_headers(headers)
CallGetCleanedHeaders ==
    /\ ~gch_done
    /\ gch_results' = _get_cleaned_headers(gch_headers)
    /\ gch_done' = TRUE
    /\ UNCHANGED <<gch_headers, loadVars, urlVars, csvVars>>

\* the pieces a URL or key is made of
UrlPieces ==
    { KeyEq, <<"k", "e">>, <<"y", "=">>, <<"#">>, <<"&">>, <<"K">> }

UrlInit ==
    /\ url \in {Flatten(ps) : ps \in SeqsUpTo(UrlPieces, MaxPieces)}
    /\ url_result = <<>>
    /\ url_again = <<>>
    /\ url_calls = 0

UrlIdle ==
    /\ url = <<>>
    /\ url_result = <<>>
    /\ url_again = <<>>
    /\ url_calls = 2

\* result = _extract_spreadsheet_key_from_url(url)
CallExtractKey ==
    /\ url_calls = 0
    /\ url_result' = _extract_spreadsheet_key_from_url(url)
    /\ url_calls' = 1
    /\ UNCHANGED <<url, url_again, loadVars, gchVars, csvVars>>

\* the function applied to its own result
CallExtractKeyAgain ==
    /\ url_calls = 1
    /\ url_again' = _extract_spreadsheet_key_from_url(url_result)
    /\ url_calls' = 2
    /\ UNCHANGED <<url, url_result, loadVars, gchVars, csvVars>>

\* what a cell of a table given to the writer can hold
CsvCells == { None, <<"a">>, <<"a", "\t">>, <<"\"", "a">> }

\* the rows of such a table: every line of mapping_lines has a cell
CsvRows == SeqsUpTo(CsvCells, MaxCsvCols) \ {<<>>}

CsvInit ==
    /\ csv_lines = <<>>
    /\ csv_out = <<>>

CsvIdle ==
    /\ csv_lines = <<>>
    /\ csv_out = <<>>

\* tsv_writer.writerows(mapping_lines) reaches one more line of the table
WriteRow ==
    /\ Len(csv_lines) < MaxCsvRows
    /\ \E row \in CsvRows :
         /\ csv_lines' = Append(csv_lines, row)
         /\ csv_out' = csv_out \o writerow(row)
    /\ UNCHANGED <<loadVars, gchVars, urlVars>>

----------------------------------------------------------------------------
(* Specifications.                                                         *)

Init == LoadInit /\ GchIdle /\ UrlIdle /\ CsvIdle

Next ==
    \/ GetWorksheetsFeed
    \/ GetCellsFeedPage
    \/ GetListFeed
    \/ ExportRow
    \/ ExportEndOfPage

\* a call of load_google_spreadsheet_mapping_file
Spec == Init /\ [][Next]_vars

InitCleanedHeaders == LoadIdle /\ GchInit /\ UrlIdle /\ CsvIdle

NextCleanedHeaders == CallGetCleanedHeaders

\* a call of _get_cleaned_headers
SpecCleanedHeaders == InitCleanedHeaders /\ [][NextCleanedHeaders]_vars

InitExtractKey == LoadIdle /\ GchIdle /\ UrlInit /\ CsvIdle

NextExtractKey == CallExtractKey \/ CallExtractKeyAgain

\* a call of _extract_spreadsheet_key_from_url, and one more on its result
SpecExtractKey == InitExtractKey /\ [][NextExtractKey]_vars

InitCsvWriter == LoadIdle /\ GchIdle /\ UrlIdle /\ CsvInit

NextCsvWriter == WriteRow

\* the csv writer writing a table
SpecCsvWriter == InitCsvWriter /\ [][NextCsvWriter]_vars

----------------------------------------------------------------------------
(* The claims about _get_cleaned_headers (SpecCleanedHeaders).             *)

\* the characters the sanitized form of a header has lost
Stripped == {"_", ":", " ", "#"}

\* the sanitized form, as the claims word it
SanitizedForm(header) == SelectSeq(lower(header), LAMBDA c : c \notin Stripped)

\* how many earlier positions have the sanitized form of position i
EarlierSame(hs, i) ==
    Cardinality({j \in 1..(i - 1) : SanitizedForm(hs[j]) = SanitizedForm(hs[i])})

\* C1: for every header sequence, _get_cleaned_headers returns a sequence
\* of the length of its input whose elements are pairwise distinct.
C1_SameLengthAndDistinct ==
    gch_done =>
        /\ Len(gch_results) = Len(gch_headers)
        /\ \A i, j \in 1..Len(gch_results) :
             i # j => gch_results[i] # gch_results[j]

\* C1's case: two headers that differ in case only, and one that looks
\* like the suffixed form the second of them is given
C1_Witness ==
    /\ gch_done
    /\ gch_headers = << <<"f">>, <<"F">>, <<"f", "_", "1">> >>
    /\ gch_results = << <<"f">>, <<"f", "_", "1">>, <<"f", "1">> >>

----------------------------------------------------------------------------
(* The claim about _extract_spreadsheet_key_from_url (SpecExtractKey).     *)

\* where 'key=' starts in u
KeyPositions(u) ==
    {i \in 1..Len(u) : i + 3 <= Len(u) /\ SubSeq(u, i, i + 3) = KeyEq}

\* the text after the last 'key=' of u
AfterLastKey(u) ==
    LET at == CHOOSE i \in KeyPositions(u) : \A j \in KeyPositions(u) : j <= i
    IN SubSeq(u, at + 4, Len(u))

\* t up to its first '#' or '&'
BeforeFirstCut(t) ==
    LET cuts == {i \in 1..Len(t) : t[i] \in {"#", "&"}} IN
    IF cuts = {} THEN t
    ELSE SubSeq(t, 1, (CHOOSE i \in cuts : \A j \in cuts : i <= j) - 1)

\* C3: an identifier without 'key=' is returned unchanged; otherwise the
\* result is the text after the last 'key=' cut at the first '#' and at
\* the first '&', it holds none of '#', '&', 'key=', and the function
\* applied to its own result returns that result.
C3_KeyAfterLastKeyEq ==
    /\ url_calls >= 1 =>
         IF KeyPositions(url) = {}
         THEN url_result = url
         ELSE /\ url_result = BeforeFirstCut(AfterLastKey(url))
              /\ \A i \in 1..Len(url_result) : url_result[i] \notin {"#", "&"}
              /\ KeyPositions(url_result) = {}
    /\ url_calls = 2 => url_again = url_result

\* C3's case: a URL with 'key=' twice and a fragment after the key
C3_Witness ==
    /\ url_calls = 2
    /\ url = KeyEq \o KeyEq \o <<"K", "#">>
    /\ url_result = <<"K">>

----------------------------------------------------------------------------
(* The claim about the returned string (SpecCsvWriter).                    *)

\* the text of a cell: a blank cell has none
TextOf(cell) == IF cell = None THEN <<>> ELSE cell

RECURSIVE TabJoined(_)
\* the texts of the cells joined by single tabs
TabJoined(row) ==
    IF Len(row) = 1 THEN TextOf(row[1])
    ELSE TextOf(row[1]) \o <<"\t">> \o TabJoined(Tail(row))

\* a cell as the writer renders it: in double quotes, each double quote
\* of its own doubled, when it holds a tab, a double quote or a newline
\* or is the only, empty, cell of its row; as it is otherwise
Rendered(cell, alone) ==
    LET t == TextOf(cell) IN
    IF (\E i \in 1..Len(t) : t[i] \in {"\t", "\"", "\n"}) \/ (t = <<>> /\ alone)
    THEN <<"\"">>
         \o Flatten([i \in 1..Len(t) |->
                        IF t[i] = "\"" THEN <<"\"", "\"">> ELSE <<t[i]>>])
         \o <<"\"">>
    ELSE t

RECURSIVE RenderedJoined(_, _)
RenderedJoined(row, alone) ==
    IF Len(row) = 1 THEN Rendered(row[1], alone)
    ELSE Rendered(row[1], alone) \o <<"\t">> \o RenderedJoined(Tail(row), alone)

\* C9 as stated: the returned string is, in row order, each row's cell
\* values joined by a single tab and followed by '\n', no cell quoted or
\* escaped, so that a cell with a tab or a double quote appears verbatim.
C9_Verbatim ==
    csv_out = Flatten([n \in 1..Len(csv_lines) |->
                          TabJoined(csv_lines[n]) \o <<"\n">>])

\* C9 amended: the returned string is, in row order, each row's cells as
\* rendered by the writer, joined by a single tab and followed by '\n': a
\* cell with a tab, a double quote or a newline is enclosed in double
\* quotes with its double quotes doubled, a row that is one blank cell is
\* written as two double quotes, and every other cell appears verbatim.
C9_MinimalQuoting ==
    csv_out = Flatten([n \in 1..Len(csv_lines) |->
                          RenderedJoined(csv_lines[n], Len(csv_lines[n]) = 1)
                          \o <<"\n">>])

\* C9's case: a table of two rows with a cell that holds a tab and one
\* that holds a double quote
C9_Witness ==
    /\ Len(csv_lines) = 2
    /\ csv_lines[1] = << <<"a">>, <<"a", "\t">> >>
    /\ csv_lines[2] = << <<"\"", "a">>, None >>

----------------------------------------------------------------------------
(* The claims about the load and the export (Spec).                        *)

cleaned == _get_cleaned_headers(headers)

\* the key of the first column
first_key == IF headers = <<>> THEN <<>> ELSE cleaned[1]

\* the cell of a feed row under this key is there and, leading whitespace
\* aside, starts with '#'
StartsAsComment(row, key) ==
    /\ key \in DOMAIN row
    /\ row[key] # None
    /\ \E i \in 1..Len(row[key]) :
          /\ row[key][i] = "#"
          /\ \A j \in 1..(i - 1) : row[key][j] \in Whitespace

\* the feed rows that have an output row: row n of the feed is line n + 1
Exported == 1..(Len(mapping_lines) - 1)

\* C4 as stated: every feed row whose first cell starts with '#' is output
\* as that first cell only, wherever it stands in the feed and however
\* many headers there are.
C4_CommentAnywhere ==
    LET key == first_key IN
    \A n \in Exported :
        StartsAsComment(feed_rows[n], key) =>
            mapping_lines[n + 1] = <<feed_rows[n][key]>>

\* C4 amended: a feed row whose first cell starts with '#' and that no
\* non-comment row precedes in the feed is output as that first cell only,
\* however many headers there are.
C4_CommentBeforeData ==
    LET key == first_key IN
    \A n \in Exported :
        (\A m \in 1..n : StartsAsComment(feed_rows[m], key)) =>
            mapping_lines[n + 1] = <<feed_rows[n][key]>>

\* C4's case: two comment rows in a row under two headers
C4_Witness ==
    /\ Len(headers) = 2
    /\ Len(mapping_lines) = 3
    /\ StartsAsComment(feed_rows[1], first_key)
    /\ StartsAsComment(feed_rows[2], first_key)
    /\ Len(mapping_lines[3]) = 1

\* the export ended on a failure of a row or of the connection
RowOrConnectionFailure ==
    result.kind \in {"RemoteMappingFileError", "AttributeError", "gaierror"}

\* C5: the export follows every next link: unless a row or the connection
\* fails, it ends by returning the header followed by one output row per
\* feed row, no page left unfetched; a next page does not make it fail.
C5_EveryPageExported ==
    (pc = "done" /\ list_pages > 0 /\ ~RowOrConnectionFailure) =>
        /\ result.kind = "returned"
        /\ ~next_link
        /\ Head(mapping_lines) = headers
        /\ Len(mapping_lines) = 1 + Len(feed_rows)

\* C6: a feed row that is not compacted as a comment either adds an output
\* row of len(headers) cells, the i-th the row's value under
\* cleaned_headers[i] (a blank cell kept), or, lacking a cell under some
\* cleaned_headers[i], fails the export with RemoteMappingFileError naming
\* headers[i]; there is no third outcome.
C6_RowOrHeaderError ==
    LET n == Len(feed_rows)
        keys == cleaned
    IN
    n > 0 =>
        IF Len(mapping_lines) = n + 1
        THEN \/ compacted[n]
             \/ /\ \A i \in 1..Len(headers) : keys[i] \in DOMAIN feed_rows[n]
                /\ mapping_lines[n + 1] =
                       [i \in 1..Len(headers) |-> feed_rows[n][keys[i]]]
        ELSE /\ result.kind = "RemoteMappingFileError"
             /\ result.value = <<>>
             /\ \E i \in 1..Len(headers) :
                   /\ keys[i] \notin DOMAIN feed_rows[n]
                   /\ result.header = headers[i]

\* the worksheet listing arrived
Listed == fetches # <<>> /\ fetches[1].ok

\* the last page of the cells feed of row 1 arrived
HeadersFetched ==
    \E i \in 1..Len(fetches) :
        /\ fetches[i].op \in {"GetCellsFeed", "GetNextCells"}
        /\ fetches[i].ok
        /\ ~fetches[i].next

\* the load failed with this message and returned nothing
FailedWith(text) ==
    /\ pc = "done"
    /\ result.kind = "RemoteMappingFileError"
    /\ result.text = text
    /\ result.key = spreadsheet_key
    /\ result.value = <<>>

NoRowsFetched == \A i \in 1..Len(fetches) : fetches[i].op # "GetListFeed"

\* C7: the load fails with RemoteMappingFileError, returns nothing and
\* fetches no data rows when the listing is empty (also when a name is
\* given; the message names the key), when no listed worksheet has the
\* name given (the message names the name and the key), and when the
\* header row fetched is empty.
C7_StructuralErrors ==
    /\ (Listed /\ worksheets_feed = <<>>) =>
          /\ FailedWith("does not have any worksheets")
          /\ Len(fetches) = 1
    /\ (Listed /\ worksheets_feed # <<>> /\ worksheet_name # NotGiven
          /\ \A i \in 1..Len(worksheets_feed) :
                worksheets_feed[i] # worksheet_name) =>
          /\ FailedWith("The worksheet name could not be found")
          /\ result.name = worksheet_name
          /\ Len(fetches) = 1
    /\ (HeadersFetched /\ headers = <<>>) =>
          /\ FailedWith("Could not load mapping file header")
          /\ NoRowsFetched

\* C7's case: the listing is empty and a worksheet name was given
C7_Witness ==
    /\ Listed
    /\ worksheets_feed = <<>>
    /\ worksheet_name = "Fasting_Map"
    /\ result.text = "does not have any worksheets"

\* C8: a name-resolution failure of the worksheet listing ends the load
\* with RemoteMappingFileConnectionError, not with the plain
\* RemoteMappingFileError, and no further fetch is made.
C8_ConnectionError ==
    (fetches # <<>> /\ ~fetches[1].ok) =>
        /\ pc = "done"
        /\ result.kind = "RemoteMappingFileConnectionError"
        /\ result.value = <<>>
        /\ Len(fetches) = 1

\* C8's case: the listing failed on name resolution
C8_Witness ==
    /\ fetches = <<Fetch("GetWorksheetsFeed", FALSE, FALSE)>>
    /\ result.kind = "RemoteMappingFileConnectionError"

\* C10: once a non-comment data row has been appended, no later feed row
\* is compacted to its first cell, even when its first cell starts with
\* '#': it is output with all len(headers) cells.
C10_NoCommentAfterData ==
    \A i, j \in 1..Len(compacted) :
        (i < j /\ ~compacted[i]) =>
            /\ ~compacted[j]
            /\ Len(mapping_lines[j + 1]) = Len(headers)

\* C10's case: under two headers, a data row and then a row whose first
\* cell starts with '#'
C10_Witness ==
    /\ Len(headers) = 2
    /\ Len(mapping_lines) = 3
    /\ ~compacted[1]
    /\ StartsAsComment(feed_rows[2], first_key)
    /\ Len(mapping_lines[3]) = 2

====
